---------------------------- MODULE Spec2Model ----------------------------
(***************************************************************************)
(* 3key_keyboard_macro.py: create_3key_keyboard() as a state machine.      *)
(*                                                                         *)
(* The macro is a straight line of requests to the CAD host.  Program(p)   *)
(* is that line, one instruction per host call, in source order (loops     *)
(* unrolled by ForRange); the actions execute the instruction at pc.  Any  *)
(* host call may raise: the macro has no try/except, so the exception      *)
(* leaves create_3key_keyboard.                                            *)
(*                                                                         *)
(* Lengths are integers counting quarter millimetres (MM(1) = 1 mm), so    *)
(* that the source's halves (x/2, 7.5, (d-1)/2) are exact.  Tangent        *)
(* components are in tenths, so that the threshold 0.1 is 1.               *)
(***************************************************************************)
EXTENDS Integers, Sequences, FiniteSets

VARIABLES
    params,       \* the params dictionary (lines 24-50)
    program,      \* the requests create_3key_keyboard makes with params, in order
    pc,           \* index in program of the next request
    status,       \* "running", "failed" (an exception left the macro), "done"
    failedAt,     \* 0, or the pc of the host call that raised
    docs,         \* documents created by App.newDocument
    objects,      \* document objects in creation order: [name, type, body]
    props,        \* property assignments in order: [obj, prop, ref, sub, num]
    geometry,     \* sketch name -> geometry list of the sketch
    constraints,  \* sketch name -> constraint list of the sketch
    dirty,        \* objects touched since the last completed recompute
    recomputes,   \* number of completed doc.recompute() calls
    refs,         \* references made to macro-built objects: [by, to, stale]
    padEdges,     \* base_pad.Shape.Edges: tangent of each edge, in host order
    i,            \* loop variable of the fillet's enumerate loop (line 102)
    edges,        \* the local list `edges` (lines 101-104), as edge numbers
    placement,    \* button_body.Placement.Base
    gui,          \* view / colour requests issued (lines 261-266)
    printed,      \* the success message was printed (line 270)
    returned      \* the function returned doc (line 281)

vars == <<params, program, pc, status, failedAt, docs, objects, props, geometry,
          constraints, dirty, recomputes, refs, padEdges, i, edges,
          placement, gui, printed, returned>>

-----------------------------------------------------------------------------
(* Units and small helpers *)

MM(v) == 4 * v

Half(v) == v \div 2

Abs(v) == IF v < 0 THEN 0 - v ELSE v

Sign(v) == IF v > 0 THEN 1 ELSE IF v < 0 THEN 0 - 1 ELSE 0

Vector(x, y, z) == <<x, y, z>>

\* for k in range(n): the requests of the iterations body[0], ..., body[n-1],
\* in iteration order
ForRange(body) ==
    LET n == Cardinality(DOMAIN body)
        f[k \in 0..n] == IF k = 0 THEN <<>> ELSE f[k - 1] \o body[k - 1]
    IN  f[n]

-----------------------------------------------------------------------------
(* Bounds of the parameter sets explored by SpecPlan, in millimetres:
   button_spacing up to button_diameter + MaxSpacing, button_offset_y within
   -MaxOffset..MaxOffset, socket_length and socket_width up to MaxSocket *)

MaxSpacing == 2

MaxOffset == 1

MaxSocket == 2

-----------------------------------------------------------------------------
(* Parameters, lines 24-50 *)

DefaultParams ==
    [ base_length     |-> MM(120),
      base_width      |-> MM(40),
      base_height     |-> MM(15),
      base_fillet     |-> MM(3),
      button_diameter |-> MM(12),
      button_height   |-> MM(8),
      button_spacing  |-> MM(35),
      button_offset_y |-> MM(0),
      socket_width    |-> MM(6),
      socket_length   |-> MM(6),
      socket_depth    |-> MM(10),
      socket_offset_z |-> MM(2),
      cable_diameter  |-> MM(6),
      cable_hole_x    |-> MM(0 - 50),
      cable_hole_z    |-> Half(MM(15)),
      wall_thickness  |-> MM(2) ]

\* The dictionary with the "easily modifiable" layout entries edited, kept
\* consistent: button_spacing above button_diameter, the sockets smaller than
\* the buttons, the offset row of holes inside the base.
PlanParams ==
    { [DefaultParams EXCEPT !.button_spacing  = DefaultParams.button_diameter + MM(s),
                            !.button_offset_y = MM(o),
                            !.socket_length   = MM(sl),
                            !.socket_width    = MM(sw)] :
        s \in 1..MaxSpacing, o \in (0 - MaxOffset)..MaxOffset,
        sl \in 1..MaxSocket, sw \in 1..MaxSocket }

-----------------------------------------------------------------------------
(* Host requests *)

SketchNames == {"BaseSketch", "ButtonHolesSketch", "SocketSketch",
                "CableHoleSketch", "ButtonSketch"}

NewDocumentReq(name) == [op |-> "newDocument", name |-> name]

AddObjectReq(type, name) == [op |-> "addObject", type |-> type, name |-> name]

NewObjectReq(body, type, name) ==
    [op |-> "newObject", body |-> body, type |-> type, name |-> name]

\* obj.prop = (ref, [sub])   /   obj.prop = ref
SetRef(obj, prop, ref, sub) ==
    [op |-> "set", obj |-> obj, prop |-> prop, ref |-> ref, sub |-> sub, num |-> 0]

\* obj.prop = number
SetNum(obj, prop, num) ==
    [op |-> "set", obj |-> obj, prop |-> prop, ref |-> "", sub |-> "", num |-> num]

\* obj.prop = 'string'
SetStr(obj, prop, str) ==
    [op |-> "set", obj |-> obj, prop |-> prop, ref |-> "", sub |-> str, num |-> 0]

AddGeometryReq(sketch, geo) == [op |-> "addGeometry", sketch |-> sketch, geo |-> geo]

AddConstraintReq(sketch, con) ==
    [op |-> "addConstraint", sketch |-> sketch, con |-> con]

RecomputeReq == [op |-> "recompute"]

LineSegment(a, b) == [kind |-> "LineSegment", a |-> a, b |-> b, r |-> 0]

Circle(center, normal, radius) ==
    [kind |-> "Circle", a |-> center, b |-> normal, r |-> radius]

\* Sketcher.Constraint(type, ...): geos are the geometry indices named by the
\* call, pos the point positions named with them, value the dimension.
Constraint(type, geos, pos, value) ==
    [type |-> type, geos |-> geos, pos |-> pos, value |-> value]

-----------------------------------------------------------------------------
(* The stages of create_3key_keyboard, in source order *)

\* lines 20-21, 52-53
DocumentStage ==
    << NewDocumentReq("3KeyKeyboard"),
       AddObjectReq("PartDesign::Body", "KeyboardBody") >>

\* lines 55-88
BaseSketchStage(p) ==
    LET sk == "BaseSketch"
        hl == Half(p.base_length)
        hw == Half(p.base_width)
    IN  << NewObjectReq("KeyboardBody", "Sketcher::SketchObject", sk),
           SetRef(sk, "Support", "XY_Plane", ""),
           SetStr(sk, "MapMode", "FlatFace"),
           AddGeometryReq(sk, LineSegment(Vector(0 - hl, 0 - hw, 0), Vector(hl, 0 - hw, 0))),
           AddGeometryReq(sk, LineSegment(Vector(hl, 0 - hw, 0), Vector(hl, hw, 0))),
           AddGeometryReq(sk, LineSegment(Vector(hl, hw, 0), Vector(0 - hl, hw, 0))),
           AddGeometryReq(sk, LineSegment(Vector(0 - hl, hw, 0), Vector(0 - hl, 0 - hw, 0))) >>
        \o ForRange([k \in 0..3 |->
             << AddConstraintReq(sk, Constraint("Coincident", <<k, (k + 1) % 4>>, <<2, 1>>, 0)) >>])
        \o << AddConstraintReq(sk, Constraint("Horizontal", <<0>>, <<>>, 0)),
              AddConstraintReq(sk, Constraint("Vertical", <<1>>, <<>>, 0)),
              AddConstraintReq(sk, Constraint("DistanceX", <<0>>, <<>>, p.base_length)),
              AddConstraintReq(sk, Constraint("DistanceY", <<1>>, <<>>, p.base_width)),
              RecomputeReq >>

\* A bug: the pad stage without its closing recompute
BasePadStageNoRecompute(p) ==
    << NewObjectReq("KeyboardBody", "PartDesign::Pad", "BasePad"),
       SetRef("BasePad", "Profile", "BaseSketch", ""),
       SetNum("BasePad", "Length", p.base_height),
       SetNum("BasePad", "Type", 0) >>

\* lines 90-95
BasePadStage(p) ==
    << NewObjectReq("KeyboardBody", "PartDesign::Pad", "BasePad"),
       SetRef("BasePad", "Profile", "BaseSketch", ""),
       SetNum("BasePad", "Length", p.base_height),
       SetNum("BasePad", "Type", 0),
       RecomputeReq >>

\* lines 97-107; the enumerate loop of lines 102-104 is the request
\* "selectEdges", executed edge by edge by SelectEdge
BaseFilletStage(p) ==
    << NewObjectReq("KeyboardBody", "PartDesign::Fillet", "BaseFillet"),
       SetRef("BaseFillet", "Base", "BasePad", ""),
       [op |-> "selectEdges", obj |-> "BasePad"],
       [op |-> "setEdges", obj |-> "BaseFillet", ref |-> "BasePad"],
       SetNum("BaseFillet", "Radius", p.base_fillet),
       RecomputeReq >>

\* lines 115-135, one iteration of the loop
ButtonHole(p, k) ==
    LET sk    == "ButtonHolesSketch"
        x_pos == (k - 1) * p.button_spacing
        y_pos == p.button_offset_y
    IN  << AddGeometryReq(sk, Circle(Vector(x_pos, y_pos, 0), Vector(0, 0, 1),
                                     Half(p.button_diameter))),
           AddConstraintReq(sk, Constraint("Radius", <<k>>, <<>>, Half(p.button_diameter))),
           IF k = 1
             THEN AddConstraintReq(sk, Constraint("PointOnObject", <<k, 0 - 1>>, <<3>>, 0))
             ELSE AddConstraintReq(sk, Constraint("Distance", <<1, k>>, <<3, 3>>,
                                                  p.button_spacing)) >>

\* lines 109-137
ButtonHolesStage(p) ==
    << NewObjectReq("KeyboardBody", "Sketcher::SketchObject", "ButtonHolesSketch"),
       SetRef("ButtonHolesSketch", "Support", "BaseFillet", "Face1"),
       SetStr("ButtonHolesSketch", "MapMode", "FlatFace") >>
    \o ForRange([k \in 0..2 |-> ButtonHole(p, k)])
    \o << RecomputeReq >>

\* lines 139-143
ButtonPocketStage ==
    << NewObjectReq("KeyboardBody", "PartDesign::Pocket", "ButtonHolesPocket"),
       SetRef("ButtonHolesPocket", "Profile", "ButtonHolesSketch", ""),
       SetNum("ButtonHolesPocket", "Type", 1),
       RecomputeReq >>

\* A bug: the socket rectangle drawn from its corner instead of around its centre
SocketRectFromCorner(p, k) ==
    LET sk       == "SocketSketch"
        x_pos    == (k - 1) * p.button_spacing
        y_pos    == p.button_offset_y
        l        == p.socket_length
        w        == p.socket_width
        base_idx == k * 4
    IN  << AddGeometryReq(sk, LineSegment(Vector(x_pos, y_pos, 0),
                                          Vector(x_pos + l, y_pos, 0))),
           AddGeometryReq(sk, LineSegment(Vector(x_pos + l, y_pos, 0),
                                          Vector(x_pos + l, y_pos + w, 0))),
           AddGeometryReq(sk, LineSegment(Vector(x_pos + l, y_pos + w, 0),
                                          Vector(x_pos, y_pos + w, 0))),
           AddGeometryReq(sk, LineSegment(Vector(x_pos, y_pos + w, 0),
                                          Vector(x_pos, y_pos, 0))) >>
        \o ForRange([j \in 0..3 |->
             << AddConstraintReq(sk, Constraint("Coincident",
                    <<base_idx + j, base_idx + ((j + 1) % 4)>>, <<2, 1>>, 0)) >>])
        \o << AddConstraintReq(sk, Constraint("DistanceX", <<base_idx>>, <<>>, p.socket_length)),
              AddConstraintReq(sk, Constraint("DistanceY", <<base_idx + 1>>, <<>>, p.socket_width)) >>

\* lines 152-181, one iteration of the loop
SocketRect(p, k) ==
    LET sk       == "SocketSketch"
        x_pos    == (k - 1) * p.button_spacing
        y_pos    == p.button_offset_y
        hl       == Half(p.socket_length)
        hw       == Half(p.socket_width)
        base_idx == k * 4
    IN  << AddGeometryReq(sk, LineSegment(Vector(x_pos - hl, y_pos - hw, 0),
                                          Vector(x_pos + hl, y_pos - hw, 0))),
           AddGeometryReq(sk, LineSegment(Vector(x_pos + hl, y_pos - hw, 0),
                                          Vector(x_pos + hl, y_pos + hw, 0))),
           AddGeometryReq(sk, LineSegment(Vector(x_pos + hl, y_pos + hw, 0),
                                          Vector(x_pos - hl, y_pos + hw, 0))),
           AddGeometryReq(sk, LineSegment(Vector(x_pos - hl, y_pos + hw, 0),
                                          Vector(x_pos - hl, y_pos - hw, 0))) >>
        \o ForRange([j \in 0..3 |->
             << AddConstraintReq(sk, Constraint("Coincident",
                    <<base_idx + j, base_idx + ((j + 1) % 4)>>, <<2, 1>>, 0)) >>])
        \o << AddConstraintReq(sk, Constraint("DistanceX", <<base_idx>>, <<>>, p.socket_length)),
              AddConstraintReq(sk, Constraint("DistanceY", <<base_idx + 1>>, <<>>, p.socket_width)) >>

\* lines 145-183
SocketSketchStage(p) ==
    << NewObjectReq("KeyboardBody", "Sketcher::SketchObject", "SocketSketch"),
       SetRef("SocketSketch", "Support", "BaseFillet", "Face2"),
       SetStr("SocketSketch", "MapMode", "FlatFace") >>
    \o ForRange([k \in 0..2 |-> SocketRect(p, k)])
    \o << RecomputeReq >>

\* A bug: the socket pocket cut as deep as the base is high
SocketPocketStageFullDepth(p) ==
    << NewObjectReq("KeyboardBody", "PartDesign::Pocket", "SocketPocket"),
       SetRef("SocketPocket", "Profile", "SocketSketch", ""),
       SetNum("SocketPocket", "Length", p.base_height),
       SetNum("SocketPocket", "Type", 0),
       RecomputeReq >>

\* lines 185-190
SocketPocketStage(p) ==
    << NewObjectReq("KeyboardBody", "PartDesign::Pocket", "SocketPocket"),
       SetRef("SocketPocket", "Profile", "SocketSketch", ""),
       SetNum("SocketPocket", "Length", p.socket_depth),
       SetNum("SocketPocket", "Type", 0),
       RecomputeReq >>

\* lines 192-209
CableSketchStage(p) ==
    LET sk == "CableHoleSketch"
    IN  << NewObjectReq("KeyboardBody", "Sketcher::SketchObject", sk),
           SetRef(sk, "Support", "YZ_Plane", ""),
           SetStr(sk, "MapMode", "FlatFace"),
           AddGeometryReq(sk, Circle(Vector(0, p.cable_hole_z, 0), Vector(1, 0, 0),
                                     Half(p.cable_diameter))),
           AddConstraintReq(sk, Constraint("Radius", <<0>>, <<>>, Half(p.cable_diameter))),
           AddConstraintReq(sk, Constraint("DistanceY", <<0, 0 - 2>>, <<3>>, p.cable_hole_z)),
           RecomputeReq >>

\* A bug: the cable pocket requested without the feature being created
CablePocketStageNoFeature ==
    << RecomputeReq >>

\* lines 211-215
CablePocketStage ==
    << NewObjectReq("KeyboardBody", "PartDesign::Pocket", "CableHolePocket"),
       SetRef("CableHolePocket", "Profile", "CableHoleSketch", ""),
       SetNum("CableHolePocket", "Type", 1),
       RecomputeReq >>

\* lines 217-236
ButtonSketchStage(p) ==
    LET sk == "ButtonSketch"
        r  == Half(p.button_diameter - MM(1))
    IN  << AddObjectReq("PartDesign::Body", "ButtonsBody"),
           NewObjectReq("ButtonsBody", "Sketcher::SketchObject", sk),
           SetRef(sk, "Support", "XY_Plane", ""),
           SetStr(sk, "MapMode", "FlatFace"),
           AddGeometryReq(sk, Circle(Vector(0, 0, 0), Vector(0, 0, 1), r)),
           AddConstraintReq(sk, Constraint("Radius", <<0>>, <<>>, r)),
           AddConstraintReq(sk, Constraint("Coincident", <<0, 0 - 1>>, <<3>>, 0)),
           RecomputeReq >>

\* lines 238-243
ButtonPadStage(p) ==
    << NewObjectReq("ButtonsBody", "PartDesign::Pad", "ButtonPad"),
       SetRef("ButtonPad", "Profile", "ButtonSketch", ""),
       SetNum("ButtonPad", "Length", p.button_height),
       SetNum("ButtonPad", "Type", 0),
       RecomputeReq >>

\* lines 245-251
ButtonPatternStage(p) ==
    << NewObjectReq("ButtonsBody", "PartDesign::LinearPattern", "ButtonPattern"),
       SetRef("ButtonPattern", "Originals", "ButtonPad", ""),
       SetRef("ButtonPattern", "Direction", "X_Axis", ""),
       SetNum("ButtonPattern", "Length", 2 * p.button_spacing),
       SetNum("ButtonPattern", "Occurrences", 3),
       RecomputeReq >>

\* lines 253-281
FinalStage(p) ==
    << [op |-> "placement", obj |-> "ButtonsBody", base |-> Vector(0, 0, p.base_height)],
       [op |-> "gui", what |-> "viewIsometric"],
       [op |-> "gui", what |-> "ViewFit"],
       [op |-> "gui", what |-> "ShapeColor KeyboardBody"],
       [op |-> "gui", what |-> "ShapeColor ButtonsBody"],
       RecomputeReq,
       [op |-> "print"],
       [op |-> "return"] >>

\* lines 17-281
Program(p) ==
    DocumentStage \o BaseSketchStage(p) \o BasePadStage(p) \o BaseFilletStage(p)
    \o ButtonHolesStage(p) \o ButtonPocketStage
    \o SocketSketchStage(p) \o SocketPocketStage(p)
    \o CableSketchStage(p) \o CablePocketStage
    \o ButtonSketchStage(p) \o ButtonPadStage(p) \o ButtonPatternStage(p)
    \o FinalStage(p)

-----------------------------------------------------------------------------
(* What the host computes from the requests *)

\* Unit tangent of a straight edge from a to b, in tenths
Tangent(a, b) == << 10 * Sign(b[1] - a[1]), 10 * Sign(b[2] - a[2]), 10 * Sign(b[3] - a[3]) >>

\* The 12 edges of the solid padded from a closed 4-line profile: the profile's
\* lines at the bottom, the same lines at the top, one edge along the
\* extrusion axis at each corner (zdir: the direction the host runs them in).
BoxEdges(profile, zdir) ==
    LET ring == [k \in 1..Len(profile) |-> Tangent(profile[k].a, profile[k].b)]
        up   == [k \in 1..Len(profile) |-> <<0, 0, zdir>>]
    IN  ring \o ring \o up

Rotate(s, n) == [k \in 1..Len(s) |-> s[((k - 1 + n) % Len(s)) + 1]]

\* The host's enumeration order of Shape.Edges is not fixed by the macro.
EdgeOrders(profile) ==
    { Rotate(BoxEdges(profile, zdir), n) : zdir \in {10, 0 - 10}, n \in {0, 4, 8} }

\* line 103: abs(edge.tangentAt(edge.FirstParameter).z) < 0.1
EdgeTest(tangent) == Abs(tangent[3]) < 1

ObjNames == { objects[k].name : k \in DOMAIN objects }

\* The property assignment obj.prop made by the macro
Prop(obj, prop) ==
    props[CHOOSE k \in DOMAIN props : props[k].obj = obj /\ props[k].prop = prop]

HasProp(obj, prop) ==
    \E k \in DOMAIN props : props[k].obj = obj /\ props[k].prop = prop

\* The solid features of a body, in creation order (sketches are not features)
Features(body) ==
    SelectSeq(objects, LAMBDA o : o.body = body /\ o.type # "Sketcher::SketchObject")

Bodies == SelectSeq(objects, LAMBDA o : o.type = "PartDesign::Body")

-----------------------------------------------------------------------------
(* Execution *)

Instr == program[pc]

Running == status = "running" /\ pc <= Len(program)

\* A reference to an object built by the macro, with whether the object has
\* been modified since the last completed recompute
Ref(by, to) ==
    IF to \in ObjNames THEN {[by |-> by, to |-> to, stale |-> to \in dirty]} ELSE {}

\* line 21
NewDocument ==
    /\ Running /\ Instr.op = "newDocument"
    /\ docs' = docs \cup {Instr.name}
    /\ pc' = pc + 1
    /\ UNCHANGED <<params, program, status, failedAt, objects, props, geometry, constraints,
                   dirty, recomputes, refs, padEdges, i, edges, placement, gui,
                   printed, returned>>

\* doc.addObject('PartDesign::Body', name), lines 53, 219
AddObject ==
    /\ Running /\ Instr.op = "addObject"
    /\ objects' = Append(objects, [name |-> Instr.name, type |-> Instr.type, body |-> ""])
    /\ dirty' = dirty \cup {Instr.name}
    /\ pc' = pc + 1
    /\ UNCHANGED <<params, program, status, failedAt, docs, props, geometry, constraints,
                   recomputes, refs, padEdges, i, edges, placement, gui, printed,
                   returned>>

\* body.newObject(type, name), lines 56, 91, 98, 111, 140, 147, 186, 194, 212,
\* 222, 239, 246
NewObject ==
    /\ Running /\ Instr.op = "newObject"
    /\ objects' = Append(objects, [name |-> Instr.name, type |-> Instr.type,
                                   body |-> Instr.body])
    /\ dirty' = dirty \cup {Instr.name, Instr.body}
    /\ pc' = pc + 1
    /\ UNCHANGED <<params, program, status, failedAt, docs, props, geometry, constraints,
                   recomputes, refs, padEdges, i, edges, placement, gui, printed,
                   returned>>

\* obj.prop = value, e.g. lines 57-58, 92-94, 99, 106, 112-113, 141-142
SetProperty ==
    /\ Running /\ Instr.op = "set"
    /\ props' = Append(props, [obj |-> Instr.obj, prop |-> Instr.prop, ref |-> Instr.ref,
                               sub |-> Instr.sub, num |-> Instr.num])
    /\ refs' = refs \cup Ref(Instr.obj, Instr.ref)
    /\ dirty' = dirty \cup {Instr.obj}
    /\ pc' = pc + 1
    /\ UNCHANGED <<params, program, status, failedAt, docs, objects, geometry, constraints,
                   recomputes, padEdges, i, edges, placement, gui, printed, returned>>

\* sketch.addGeometry(geo, False), lines 61-76, 121-125, 157-172, 199-203, 227-231
AddGeometry ==
    /\ Running /\ Instr.op = "addGeometry"
    /\ geometry' = [geometry EXCEPT ![Instr.sketch] = Append(@, Instr.geo)]
    /\ dirty' = dirty \cup {Instr.sketch}
    /\ pc' = pc + 1
    /\ UNCHANGED <<params, program, status, failedAt, docs, objects, props, constraints,
                   recomputes, refs, padEdges, i, edges, placement, gui, printed,
                   returned>>

\* sketch.addConstraint(Sketcher.Constraint(...)), lines 80-86, 128-135, 177-181,
\* 206-207, 233-234; `at` records how many geometry elements the sketch holds
\* when the constraint is added
AddConstraint ==
    /\ Running /\ Instr.op = "addConstraint"
    /\ constraints' = [constraints EXCEPT ![Instr.sketch] =
           Append(@, [type  |-> Instr.con.type,  geos |-> Instr.con.geos,
                      pos   |-> Instr.con.pos,   value |-> Instr.con.value,
                      at    |-> Len(geometry[Instr.sketch])])]
    /\ dirty' = dirty \cup {Instr.sketch}
    /\ pc' = pc + 1
    /\ UNCHANGED <<params, program, status, failedAt, docs, objects, props, geometry,
                   recomputes, refs, padEdges, i, edges, placement, gui, printed,
                   returned>>

\* doc.recompute(), lines 88, 95, 107, 137, 143, 183, 190, 209, 215, 236, 243,
\* 251, 268: every touched object is recomputed; recomputing BasePad builds
\* its solid from the profile sketch
Recompute ==
    /\ Running /\ Instr.op = "recompute"
    /\ dirty' = {}
    /\ recomputes' = recomputes + 1
    /\ IF "BasePad" \in dirty /\ HasProp("BasePad", "Profile")
         THEN padEdges' \in EdgeOrders(geometry[Prop("BasePad", "Profile").ref])
         ELSE padEdges' = padEdges
    /\ pc' = pc + 1
    /\ UNCHANGED <<params, program, status, failedAt, docs, objects, props, geometry,
                   constraints, refs, i, edges, placement, gui, printed, returned>>

\* lines 101-104: one iteration of `for i, edge in enumerate(base_pad.Shape.Edges)`,
\* or the loop's exit
SelectEdge ==
    /\ Running /\ Instr.op = "selectEdges"
    /\ refs' = refs \cup Ref("BaseFillet", Instr.obj)
    /\ IF i < Len(padEdges)
         THEN /\ edges' = IF EdgeTest(padEdges[i + 1]) THEN Append(edges, i + 1) ELSE edges
              /\ i' = i + 1
              /\ pc' = pc
         ELSE /\ pc' = pc + 1
              /\ UNCHANGED <<i, edges>>
    /\ UNCHANGED <<params, program, status, failedAt, docs, objects, props, geometry,
                   constraints, dirty, recomputes, padEdges, placement, gui, printed,
                   returned>>

\* line 105: base_fillet.Edges = edges
SetEdges ==
    /\ Running /\ Instr.op = "setEdges"
    /\ props' = Append(props, [obj |-> Instr.obj, prop |-> "Edges", ref |-> Instr.ref,
                               sub |-> "", num |-> Len(edges)])
    /\ refs' = refs \cup Ref(Instr.obj, Instr.ref)
    /\ dirty' = dirty \cup {Instr.obj}
    /\ pc' = pc + 1
    /\ UNCHANGED <<params, program, status, failedAt, docs, objects, geometry, constraints,
                   recomputes, padEdges, i, edges, placement, gui, printed, returned>>

\* lines 254-257
SetPlacement ==
    /\ Running /\ Instr.op = "placement"
    /\ placement' = Instr.base
    /\ dirty' = dirty \cup {Instr.obj}
    /\ pc' = pc + 1
    /\ UNCHANGED <<params, program, status, failedAt, docs, objects, props, geometry,
                   constraints, recomputes, refs, padEdges, i, edges, gui, printed,
                   returned>>

\* lines 261-266
GuiRequest ==
    /\ Running /\ Instr.op = "gui"
    /\ gui' = Append(gui, Instr.what)
    /\ pc' = pc + 1
    /\ UNCHANGED <<params, program, status, failedAt, docs, objects, props, geometry,
                   constraints, dirty, recomputes, refs, padEdges, i, edges,
                   placement, printed, returned>>

\* lines 270-279
PrintSummary ==
    /\ Running /\ Instr.op = "print"
    /\ printed' = TRUE
    /\ pc' = pc + 1
    /\ UNCHANGED <<params, program, status, failedAt, docs, objects, props, geometry,
                   constraints, dirty, recomputes, refs, padEdges, i, edges,
                   placement, gui, returned>>

\* line 281
ReturnDoc ==
    /\ Running /\ Instr.op = "return"
    /\ returned' = TRUE
    /\ status' = "done"
    /\ pc' = pc + 1
    /\ UNCHANGED <<params, program, failedAt, docs, objects, props, geometry, constraints,
                   dirty, recomputes, refs, padEdges, i, edges, placement, gui,
                   printed>>

\* A bug in which the exception is swallowed and the macro goes on
RaiseSwallowed ==
    /\ Running /\ Instr.op \notin {"print", "return"}
    /\ failedAt' = pc
    /\ pc' = pc + 1
    /\ UNCHANGED <<params, program, status, docs, objects, props, geometry, constraints,
                   dirty, recomputes, refs, padEdges, i, edges, placement, gui,
                   printed, returned>>

\* A host call raises.  Nothing in lines 17-281 catches it: the exception
\* leaves create_3key_keyboard with the call's effect not made.
Raise ==
    /\ Running /\ Instr.op \notin {"print", "return"}
    /\ failedAt' = pc
    /\ status' = "failed"
    /\ UNCHANGED <<params, program, pc, docs, objects, props, geometry, constraints, dirty,
                   recomputes, refs, padEdges, i, edges, placement, gui, printed,
                   returned>>

Start(p) ==
    /\ params = p
    /\ program = Program(p)
    /\ pc = 1
    /\ status = "running"
    /\ failedAt = 0
    /\ docs = {}
    /\ objects = <<>>
    /\ props = <<>>
    /\ geometry = [s \in SketchNames |-> <<>>]
    /\ constraints = [s \in SketchNames |-> <<>>]
    /\ dirty = {}
    /\ recomputes = 0
    /\ refs = {}
    /\ padEdges = <<>>
    /\ i = 0
    /\ edges = <<>>
    /\ placement = Vector(0, 0, 0)
    /\ gui = <<>>
    /\ printed = FALSE
    /\ returned = FALSE

\* The macro as written: the hardcoded dictionary
Init == Start(DefaultParams)

\* The macro with the layout entries of the dictionary edited
InitPlan == \E p \in PlanParams : Start(p)

Next ==
    \/ NewDocument
    \/ AddObject
    \/ NewObject
    \/ SetProperty
    \/ AddGeometry
    \/ AddConstraint
    \/ Recompute
    \/ SelectEdge
    \/ SetEdges
    \/ SetPlacement
    \/ GuiRequest
    \/ PrintSummary
    \/ ReturnDoc
    \/ Raise

Spec == Init /\ [][Next]_vars

SpecPlan == InitPlan /\ [][Next]_vars

-----------------------------------------------------------------------------
(* Geometry read back from the sketches and features *)

\* Centre of the k-th circle (k = 0, 1, 2) of the button-hole sketch, lines 121-125
HoleCentre(k) ==
    LET c == geometry["ButtonHolesSketch"][k + 1].a IN <<c[1], c[2]>>

\* Sum of the four corners of the k-th socket rectangle (4 times its centre),
\* lines 157-172: each line starts at one corner
SocketCornerSum(k) ==
    LET g == geometry["SocketSketch"]
        b == 4 * k
    IN  << g[b + 1].a[1] + g[b + 2].a[1] + g[b + 3].a[1] + g[b + 4].a[1],
           g[b + 1].a[2] + g[b + 2].a[2] + g[b + 3].a[2] + g[b + 4].a[2] >>

\* Axis of the cable hole, lines 194-203: the sketch lies on the YZ plane, so
\* its first coordinate is the model's Y and its second the model's Z; the
\* hole runs along X through the circle's centre.
CableAxis ==
    LET c == geometry["CableHoleSketch"][1].a IN [y |-> c[1], z |-> c[2]]

\* Centre of the k-th occurrence (k = 0 is the original) of the linear pattern,
\* in model coordinates, lines 227-231 and 246-257: the occurrences are spread
\* along X over Length starting at the original, and the body is then placed.
CapCentre(k) ==
    LET c    == geometry["ButtonSketch"][1].a
        step == Prop("ButtonPattern", "Length").num
                    \div (Prop("ButtonPattern", "Occurrences").num - 1)
    IN  << c[1] + k * step + placement[1], c[2] + placement[2], c[3] + placement[3] >>

\* Whether a placement of the circle centres (centre[g] = <<x, y>> for
\* geometry index g) satisfies a constraint of lines 128-135.  A Radius fixes
\* no position; PointOnObject(g, 3, -1) puts the centre of g on the sketch's
\* horizontal axis (geometry -1), and on the vertical axis for -2;
\* Distance(g1, 3, g2, 3, d) sets the distance between the two centres.
Satisfies(con, centre) ==
    CASE con.type = "PointOnObject" ->
           IF con.geos[2] = 0 - 1 THEN centre[con.geos[1]][2] = 0
                                  ELSE centre[con.geos[1]][1] = 0
      [] con.type = "Distance" ->
           LET dx == centre[con.geos[1]][1] - centre[con.geos[2]][1]
               dy == centre[con.geos[1]][2] - centre[con.geos[2]][2]
           IN  dx * dx + dy * dy = con.value * con.value
      [] OTHER -> TRUE

ButtonHolesDrawn == Len(geometry["ButtonHolesSketch"]) = 3

-----------------------------------------------------------------------------
(* The claims *)

FeatureNames(body) ==
    LET f == Features(body) IN [k \in 1..Len(f) |-> f[k].name]

FeatureTypes(body) ==
    LET f == Features(body) IN [k \in 1..Len(f) |-> f[k].type]

BodyNames == [k \in 1..Len(Bodies) |-> Bodies[k].name]

\* C1, as stated: a completed run with the default parameters leaves exactly 2
\* bodies, the keyboard body with 4 solid features and the button body with
\* the 2 features pad, linear pattern of 3 occurrences.
C1_FourFeatures ==
    status = "done" =>
        /\ Len(Bodies) = 2
        /\ Len(Features("KeyboardBody")) = 4
        /\ FeatureTypes("ButtonsBody") = <<"PartDesign::Pad", "PartDesign::LinearPattern">>
        /\ Prop("ButtonPattern", "Occurrences").num = 3

\* C1, amended: a completed run with the default parameters leaves exactly 2
\* bodies; the keyboard body holds 5 solid features in the order pad, fillet,
\* button-hole pocket, socket pocket, cable pocket, and the button body holds
\* 2 in the order pad, linear pattern with 3 occurrences.
C1_FiveFeatures ==
    status = "done" =>
        /\ BodyNames = <<"KeyboardBody", "ButtonsBody">>
        /\ FeatureNames("KeyboardBody") =
             <<"BasePad", "BaseFillet", "ButtonHolesPocket", "SocketPocket",
               "CableHolePocket">>
        /\ FeatureTypes("KeyboardBody") =
             <<"PartDesign::Pad", "PartDesign::Fillet", "PartDesign::Pocket",
               "PartDesign::Pocket", "PartDesign::Pocket">>
        /\ FeatureNames("ButtonsBody") = <<"ButtonPad", "ButtonPattern">>
        /\ FeatureTypes("ButtonsBody") = <<"PartDesign::Pad", "PartDesign::LinearPattern">>
        /\ Prop("ButtonPattern", "Occurrences").num = 3

C1_Witness ==
    /\ status = "done"
    /\ params = DefaultParams
    /\ Len(objects) = 14

\* C2: once the button body is placed, the centre of the k-th cap of the
\* pattern lies over the centre of the k-th button hole (equal X and Y), for
\* k = 0, 1, 2.
C2_CapsOverHoles ==
    status = "done" =>
        \A k \in 0..2 :
            /\ CapCentre(k)[1] = HoleCentre(k)[1]
            /\ CapCentre(k)[2] = HoleCentre(k)[2]

\* C3: the edges given to the fillet are exactly the edges of the padded box
\* that run along the extrusion axis z; no horizontal edge is among them.
C3_VerticalEdgesOnly ==
    HasProp("BaseFillet", "Edges") =>
        { edges[k] : k \in DOMAIN edges } =
            { n \in DOMAIN padEdges :
                padEdges[n][1] = 0 /\ padEdges[n][2] = 0 /\ padEdges[n][3] # 0 }

\* C4: for every parameter set, the three button-hole centres are at
\* -1, 0, +1 times button_spacing along X, and their line coincides, projected
\* on the base plane, with the axis of the cable hole.
C4_OnCableAxis ==
    (ButtonHolesDrawn /\ Len(geometry["CableHoleSketch"]) = 1) =>
        \A k \in 0..2 :
            /\ HoleCentre(k)[1] = (k - 1) * params.button_spacing
            /\ HoleCentre(k)[2] = CableAxis.y

\* Candidate centre coordinates for the button-hole sketch
Grid == { 0 - params.button_spacing, 0, params.button_spacing }

\* C5: among the placements of the three centres on the grid, the only one
\* that satisfies every constraint added to the button-hole sketch is
\* (-button_spacing, 0), (0, 0), (+button_spacing, 0).
C5_OnlyPlacement ==
    Len(constraints["ButtonHolesSketch"]) = 6 =>
        \A centre \in [0..2 -> Grid \X Grid] :
            (\A n \in 1..6 : Satisfies(constraints["ButtonHolesSketch"][n], centre))
                => centre = [k \in 0..2 |-> <<(k - 1) * params.button_spacing, 0>>]

\* C6: for k = 0, 1, 2 the centre of the k-th socket rectangle (the mean of its
\* four corners) is the centre of the k-th button-hole circle, for every
\* button_spacing, button_offset_y, socket_length and socket_width.
C6_Concentric ==
    \A k \in 0..2 :
        Len(geometry["SocketSketch"]) >= 4 * (k + 1) =>
            SocketCornerSum(k) = << 4 * HoleCentre(k)[1], 4 * HoleCentre(k)[2] >>

C6_Witness ==
    /\ Len(geometry["SocketSketch"]) = 12
    /\ params.button_offset_y # 0
    /\ params.socket_length # params.socket_width

\* C7: the Length given to the socket pocket does not exceed
\* base_height - socket_offset_z.
C7_SocketDepthFits ==
    HasProp("SocketPocket", "Length") =>
        Prop("SocketPocket", "Length").num <= params.base_height - params.socket_offset_z

C7_Witness ==
    /\ HasProp("SocketPocket", "Length")
    /\ Prop("SocketPocket", "Length").num = params.socket_depth
    /\ status = "done"

\* The references to earlier objects the macro makes
StageRefs ==
    { <<"BasePad", "BaseSketch">>, <<"BaseFillet", "BasePad">>,
      <<"ButtonHolesSketch", "BaseFillet">>, <<"ButtonHolesPocket", "ButtonHolesSketch">>,
      <<"SocketSketch", "BaseFillet">>, <<"SocketPocket", "SocketSketch">>,
      <<"CableHolePocket", "CableHoleSketch">>, <<"ButtonPad", "ButtonSketch">>,
      <<"ButtonPattern", "ButtonPad">> }

\* C8: every reference a stage makes to an object built earlier (a profile, a
\* base, a support face, the edges read by the fillet, the pattern's original)
\* is made when a recompute has completed since that object was last modified.
C8_RecomputeBarrier ==
    /\ \A r \in refs : ~r.stale
    /\ status = "done" => { <<r.by, r.to>> : r \in refs } = StageRefs

C8_Witness ==
    /\ status = "done"
    /\ \E r \in refs : r.by = "BaseFillet" /\ r.to = "BasePad"
    /\ \E r \in refs : r.by = "ButtonPattern" /\ r.to = "ButtonPad"

\* C9: once a host call has failed, nothing more happens: the position does
\* not move (no later request, no retry of the failed one), the success
\* message is not printed, nothing is returned, and the objects, properties
\* and sketch contents made before the failure stay as they are.
C9_AbortOnFailure ==
    [][ /\ failedAt # 0 =>
            UNCHANGED <<pc, status, docs, objects, props, geometry, constraints,
                        recomputes, edges, placement, gui, printed, returned>>
        /\ failedAt' # 0 =>
            /\ status' = "failed"
            /\ failedAt' = pc'
            /\ ~printed' /\ ~returned'
            /\ objects' = objects /\ props' = props ]_vars

C9_Witness ==
    /\ failedAt # 0
    /\ status = "failed"
    /\ Len(objects) >= 3
    /\ pc < Len(program)

\* C10: every constraint names only geometry the sketch already holds when the
\* constraint is added: each non-negative index is below the number of
\* geometry elements at that moment.
C10_GeometryBeforeConstraint ==
    \A s \in SketchNames :
        \A n \in DOMAIN constraints[s] :
            \A m \in DOMAIN constraints[s][n].geos :
                constraints[s][n].geos[m] >= 0 =>
                    constraints[s][n].geos[m] < constraints[s][n].at

=============================================================================
